---- MODULE Spec2Model ----
(***************************************************************************)
(* Bech32 <-> amino-prefixed public key codec of cosmjs (pubkey.ts).       *)
(* Bytes are integers 0..255, a Uint8Array is a sequence of bytes.  A hex  *)
(* string is a sequence of hex digits 0..15, a base64 string a sequence of *)
(* sextets 0..63 with 64 standing for the padding character '='.           *)
(***************************************************************************)
EXTENDS Integers, Sequences, FiniteSets, TLC

VARIABLES pc, call, prefix, data, pubkey, bech, result, out

vars == <<pc, call, prefix, data, pubkey, bech, result, out>>

----------------------------------------------------------------------------
(* Bounds of the input space *)

MaxKeyLen == 34
NumSeeds == 2

----------------------------------------------------------------------------
(* Encoding.fromHex / Encoding.toHex *)

fromHex(h) == [i \in 1..(Len(h) \div 2) |-> h[2 * i - 1] * 16 + h[2 * i]]

toHex(b) ==
  [j \in 1..(2 * Len(b)) |->
     IF j % 2 = 1 THEN b[(j + 1) \div 2] \div 16 ELSE b[j \div 2] % 16]

(* Encoding.toBase64 / Encoding.fromBase64 *)

Pad == 64

toBase64(b) ==
  LET n == Len(b)
      at(i) == IF i <= n THEN b[i] ELSE 0
  IN [j \in 1..(4 * ((n + 2) \div 3)) |->
        LET g == (j - 1) \div 4
            k == (j - 1) % 4
            b0 == at(3 * g + 1)
            b1 == at(3 * g + 2)
            b2 == at(3 * g + 3)
        IN CASE k = 0 -> b0 \div 4
             [] k = 1 -> (b0 % 4) * 16 + (b1 \div 16)
             [] k = 2 -> IF 3 * g + 2 > n THEN Pad ELSE (b1 % 16) * 4 + (b2 \div 64)
             [] k = 3 -> IF 3 * g + 3 > n THEN Pad ELSE b2 % 64]

fromBase64(s) ==
  LET m == Len(s)
      pads == Cardinality({j \in 1..m : s[j] = Pad})
      at(j) == IF s[j] = Pad THEN 0 ELSE s[j]
  IN [i \in 1..(3 * (m \div 4) - pads) |->
        LET g == (i - 1) \div 3
            k == (i - 1) % 3
            c0 == at(4 * g + 1)
            c1 == at(4 * g + 2)
            c2 == at(4 * g + 3)
            c3 == at(4 * g + 4)
        IN CASE k = 0 -> c0 * 4 + (c1 \div 16)
             [] k = 1 -> (c1 % 16) * 16 + (c2 \div 4)
             [] k = 2 -> (c2 % 4) * 64 + c3]

(* Bech32.encode / Bech32.decode: the data part is the byte string regrouped *)
(* into 5-bit words (zero padded); the checksum is not modelled.             *)

Pow2(e) == CASE e = 0 -> 1 [] e = 1 -> 2 [] e = 2 -> 4 [] e = 3 -> 8
             [] e = 4 -> 16 [] e = 5 -> 32 [] e = 6 -> 64 [] e = 7 -> 128

BitOf(s, width, i) ==
  LET idx == (i \div width) + 1
  IN IF idx > Len(s) THEN 0 ELSE (s[idx] \div Pow2(width - 1 - (i % width))) % 2

Regroup(s, from, to, len) ==
  [j \in 1..len |->
     BitOf(s, from, to * (j - 1)) * Pow2(to - 1)
     + (IF to > 1 THEN BitOf(s, from, to * (j - 1) + 1) * Pow2(to - 2) ELSE 0)
     + (IF to > 2 THEN BitOf(s, from, to * (j - 1) + 2) * Pow2(to - 3) ELSE 0)
     + (IF to > 3 THEN BitOf(s, from, to * (j - 1) + 3) * Pow2(to - 4) ELSE 0)
     + (IF to > 4 THEN BitOf(s, from, to * (j - 1) + 4) * Pow2(to - 5) ELSE 0)
     + (IF to > 5 THEN BitOf(s, from, to * (j - 1) + 5) * Pow2(to - 6) ELSE 0)
     + (IF to > 6 THEN BitOf(s, from, to * (j - 1) + 6) * Pow2(to - 7) ELSE 0)
     + (IF to > 7 THEN BitOf(s, from, to * (j - 1) + 7) * Pow2(to - 8) ELSE 0)]

Bech32_encode(p, d) ==
  [prefix |-> p, words |-> Regroup(d, 8, 5, (8 * Len(d) + 4) \div 5)]

Bech32_decode(b) ==
  [prefix |-> b.prefix, data |-> Regroup(b.words, 5, 8, (5 * Len(b.words)) \div 8)]

----------------------------------------------------------------------------
(* pubkey.ts *)

pubkeyType ==
  [secp256k1 |-> "tendermint/PubKeySecp256k1",
   ed25519 |-> "tendermint/PubKeyEd25519",
   sr25519 |-> "tendermint/PubKeySr25519"]

validPubkeyPrefixes == <<"cosmospub", "cosmosvalconspub", "cosmosvaloperpub">>

isCosmosPubkeyBech32Prefix_typo(p) ==
  p \in {"cosmospub", "cosmosvalconspub", "cosmosvaloper"}

isCosmosPubkeyBech32Prefix(p) ==
  \E i \in 1..Len(validPubkeyPrefixes) : validPubkeyPrefixes[i] = p

\* "eb5ae98721"
pubkeyAminoPrefixSecp256k1 == fromHex(<<14, 11, 5, 10, 14, 9, 8, 7, 2, 1>>)
pubkeyAminoPrefixEd25519_copied == fromHex(<<14, 11, 5, 10, 14, 9, 8, 7, 2, 1>>)

\* "1624de6420"
pubkeyAminoPrefixEd25519 == fromHex(<<1, 6, 2, 4, 13, 14, 6, 4, 2, 0>>)
\* "0dfb1005"
pubkeyAminoPrefixSr25519 == fromHex(<<0, 13, 15, 11, 1, 0, 0, 5>>)
pubkeyAminoPrefixLength == Len(pubkeyAminoPrefixSecp256k1)

\* Uint8Array.prototype.slice(begin, end) and slice(begin)
slice(a, begin, end) ==
  LET e == IF end > Len(a) THEN Len(a) ELSE end
      b == IF begin > Len(a) THEN Len(a) ELSE begin
  IN IF e <= b THEN <<>> ELSE SubSeq(a, b + 1, e)

sliceFrom_offByOne(a, begin) == slice(a, begin + 1, Len(a))

sliceFrom(a, begin) == slice(a, begin, Len(a))

equal_commonPrefix(a, b) ==
  \A i \in 1..(IF Len(a) < Len(b) THEN Len(a) ELSE Len(b)) : a[i] = b[i]

\* fast-deep-equal on two Uint8Arrays
equal(a, b) == Len(a) = Len(b) /\ \A i \in 1..Len(a) : a[i] = b[i]

NoBytes == <<>>

Key(type, value) ==
  [kind |-> "ok", type |-> type, value |-> value,
   expected |-> 0, hex |-> NoBytes, message |-> ""]

Thrown(kind, message, expected, hex) ==
  [kind |-> kind, type |-> "", value |-> NoBytes,
   expected |-> expected, hex |-> hex, message |-> message]

restLengthEd25519 == 32
restLengthSr25519 == 32
restLengthSecp256k1_asEd25519 == restLengthEd25519
restLengthSecp256k1 == 33

decodeBech32Pubkey(b) ==
  LET dec == Bech32_decode(b)
      aminoPrefix == slice(dec.data, 0, pubkeyAminoPrefixLength)
      rest == sliceFrom(dec.data, pubkeyAminoPrefixLength)
  IN IF ~isCosmosPubkeyBech32Prefix(dec.prefix)
       THEN Thrown("InvalidPrefix",
                   "Invalid bech32 prefix. Must be one of cosmospub, cosmosvalconspub, cosmosvaloperpub.",
                   0, NoBytes)
     ELSE IF equal(aminoPrefix, pubkeyAminoPrefixSecp256k1)
       THEN IF Len(rest) # restLengthSecp256k1
              THEN Thrown("InvalidPayloadLength",
                          "Invalid rest data length. Expected 33 bytes (compressed secp256k1 pubkey).",
                          33, NoBytes)
              ELSE Key(pubkeyType.secp256k1, toBase64(rest))
     ELSE IF equal(aminoPrefix, pubkeyAminoPrefixEd25519)
       THEN IF Len(rest) # restLengthEd25519
              THEN Thrown("InvalidPayloadLength",
                          "Invalid rest data length. Expected 32 bytes (Ed25519 pubkey).",
                          32, NoBytes)
              ELSE Key(pubkeyType.ed25519, toBase64(rest))
     ELSE IF equal(aminoPrefix, pubkeyAminoPrefixSr25519)
       THEN IF Len(rest) # restLengthSr25519
              THEN Thrown("InvalidPayloadLength",
                          "Invalid rest data length. Expected 32 bytes (Sr25519 pubkey).",
                          32, NoBytes)
              ELSE Key(pubkeyType.sr25519, toBase64(rest))
     ELSE Thrown("UnsupportedKeyEncoding",
                 "Unsupported Pubkey type. Amino prefix: ", 0, toHex(aminoPrefix))

NoBech == [prefix |-> "", words |-> NoBytes]

encodeBech32Pubkey_wrongMarker(pk, p) ==
  IF pk.type = pubkeyType.secp256k1
    THEN [kind |-> "ok",
          bech |-> Bech32_encode(p, pubkeyAminoPrefixEd25519 \o fromBase64(pk.value)),
          message |-> ""]
    ELSE [kind |-> "UnsupportedAlgorithmForEncoding",
          bech |-> NoBech,
          message |-> "Unsupported pubkey type"]

encodeBech32Pubkey_withEd25519(pk, p) ==
  IF pk.type = pubkeyType.secp256k1
    THEN [kind |-> "ok",
          bech |-> Bech32_encode(p, pubkeyAminoPrefixSecp256k1 \o fromBase64(pk.value)),
          message |-> ""]
  ELSE IF pk.type = pubkeyType.ed25519
    THEN [kind |-> "ok",
          bech |-> Bech32_encode(p, pubkeyAminoPrefixEd25519 \o fromBase64(pk.value)),
          message |-> ""]
    ELSE [kind |-> "UnsupportedAlgorithmForEncoding",
          bech |-> NoBech,
          message |-> "Unsupported pubkey type"]

encodeBech32Pubkey_checksLength(pk, p) ==
  IF pk.type = pubkeyType.secp256k1 /\ Len(fromBase64(pk.value)) = 33
    THEN [kind |-> "ok",
          bech |-> Bech32_encode(p, pubkeyAminoPrefixSecp256k1 \o fromBase64(pk.value)),
          message |-> ""]
    ELSE [kind |-> "UnsupportedAlgorithmForEncoding",
          bech |-> NoBech,
          message |-> "Unsupported pubkey type"]

encodeBech32Pubkey(pk, p) ==
  IF pk.type = pubkeyType.secp256k1
    THEN [kind |-> "ok",
          bech |-> Bech32_encode(p, pubkeyAminoPrefixSecp256k1 \o fromBase64(pk.value)),
          message |-> ""]
    ELSE [kind |-> "UnsupportedAlgorithmForEncoding",
          bech |-> NoBech,
          message |-> "Unsupported pubkey type"]

----------------------------------------------------------------------------
(* Callers: the inputs a call is made with, and the calls themselves *)

Prefixes == {"cosmospub", "cosmosvalconspub", "cosmosvaloperpub", "cosmos", "cosmosvaloper"}

Types == {pubkeyType.secp256k1, pubkeyType.ed25519, pubkeyType.sr25519}

KeyBytes(seed, n) == [i \in 1..n |-> (seed * 89 + i * (2 * seed + 29)) % 256]

Heads ==
  { <<235, 90, 233, 135, 33>>,
    <<22, 36, 222, 100, 32>>,
    <<13, 251, 16, 5>>,
    <<13, 251, 16, 5, 32>>,
    <<1, 2, 3, 4, 5>>,
    <<235, 90, 233, 135, 32>>,
    <<235, 90, 233, 135>>,
    <<>> }

NoKey == [type |-> "", value |-> NoBytes]
NoResult == Thrown("none", "", 0, NoBytes)
NoOut == [kind |-> "none", bech |-> NoBech, message |-> ""]

markerOf(type) ==
  CASE type = pubkeyType.secp256k1 -> pubkeyAminoPrefixSecp256k1
    [] type = pubkeyType.ed25519 -> pubkeyAminoPrefixEd25519
    [] type = pubkeyType.sr25519 -> pubkeyAminoPrefixSr25519

Init ==
  /\ pc = "start"
  /\ call \in {"decode", "encode"}
  /\ prefix \in Prefixes
  /\ result = NoResult
  /\ out = NoOut
  /\ \E n \in 0..MaxKeyLen, seed \in 1..NumSeeds :
       \/ /\ call = "decode"
          /\ \E head \in Heads : data = head \o KeyBytes(seed, n)
          /\ bech = Bech32_encode(prefix, data)
          /\ pubkey = NoKey
       \/ /\ call = "encode"
          /\ data = KeyBytes(seed, n)
          /\ \E t \in Types : pubkey = [type |-> t, value |-> toBase64(data)]
          /\ bech = NoBech

\* decodeBech32Pubkey(bech)
Decode ==
  /\ pc = "start"
  /\ call = "decode"
  /\ result' = decodeBech32Pubkey(bech)
  /\ pc' = "decoded"
  /\ UNCHANGED <<call, prefix, data, pubkey, bech, out>>

\* encodeBech32Pubkey(decodeBech32Pubkey(bech), prefix)
EncodeDecoded ==
  /\ pc = "decoded"
  /\ result.kind = "ok"
  /\ out' = encodeBech32Pubkey([type |-> result.type, value |-> result.value], prefix)
  /\ pc' = "reencoded"
  /\ UNCHANGED <<call, prefix, data, pubkey, bech, result>>

\* encodeBech32Pubkey(pubkey, prefix)
Encode ==
  /\ pc = "start"
  /\ call = "encode"
  /\ out' = encodeBech32Pubkey(pubkey, prefix)
  /\ pc' = "encoded"
  /\ UNCHANGED <<call, prefix, data, pubkey, bech, result>>

\* decodeBech32Pubkey(encodeBech32Pubkey(pubkey, prefix))
DecodeEncoded ==
  /\ pc = "encoded"
  /\ out.kind = "ok"
  /\ bech' = out.bech
  /\ result' = decodeBech32Pubkey(out.bech)
  /\ pc' = "redecoded"
  /\ UNCHANGED <<call, prefix, data, pubkey, out>>

\* the encoder refused the key: the caller builds the string by hand from
\* the key's amino prefix and its bytes, and decodes that
DecodeHandConstructed ==
  /\ pc = "encoded"
  /\ out.kind # "ok"
  /\ bech' = Bech32_encode(prefix, markerOf(pubkey.type) \o fromBase64(pubkey.value))
  /\ result' = decodeBech32Pubkey(bech')
  /\ pc' = "handmade"
  /\ UNCHANGED <<call, prefix, data, pubkey, out>>

Next ==
  \/ Decode
  \/ EncodeDecoded
  \/ Encode
  \/ DecodeEncoded
  \/ DecodeHandConstructed

Spec == Init /\ [][Next]_vars

TypeOK ==
  /\ pc \in {"start", "decoded", "reencoded", "encoded", "redecoded", "handmade"}
  /\ call \in {"decode", "encode"}
  /\ prefix \in Prefixes
  /\ \A i \in 1..Len(data) : data[i] \in 0..255
  /\ result.kind \in {"none", "ok", "InvalidPrefix", "InvalidPayloadLength", "UnsupportedKeyEncoding"}
  /\ out.kind \in {"none", "ok", "UnsupportedAlgorithmForEncoding"}

----------------------------------------------------------------------------
(* Vocabulary of the properties *)

Accepted == {"cosmospub", "cosmosvalconspub", "cosmosvaloperpub"}

Algorithms == {"secp256k1", "ed25519", "sr25519"}

TypeOf(a) ==
  CASE a = "secp256k1" -> "tendermint/PubKeySecp256k1"
    [] a = "ed25519" -> "tendermint/PubKeyEd25519"
    [] a = "sr25519" -> "tendermint/PubKeySr25519"

Marker(a) ==
  CASE a = "secp256k1" -> pubkeyAminoPrefixSecp256k1
    [] a = "ed25519" -> pubkeyAminoPrefixEd25519
    [] a = "sr25519" -> pubkeyAminoPrefixSr25519

Required(a) ==
  CASE a = "secp256k1" -> 33
    [] a = "ed25519" -> 32
    [] a = "sr25519" -> 32

\* the two parts decode cuts the data into
MarkerPart(d) == SubSeq(d, 1, IF Len(d) < pubkeyAminoPrefixLength THEN Len(d) ELSE pubkeyAminoPrefixLength)
RestPart(d) == SubSeq(d, Len(MarkerPart(d)) + 1, Len(d))

\* d is the marker of algorithm a followed by a payload of a's required length
IsTagged(d, a) ==
  /\ Len(d) = Len(Marker(a)) + Required(a)
  /\ SubSeq(d, 1, Len(Marker(a))) = Marker(a)

PayloadOf(d, a) == SubSeq(d, Len(Marker(a)) + 1, Len(d))

----------------------------------------------------------------------------
\* C1: a 33-byte secp256k1 key encoded under an accepted prefix and decoded
\* again comes back as exactly the same key: encode succeeds, decode succeeds
\* with type secp256k1 and the same key bytes.
C1_RoundTripSecp256k1 ==
  (/\ pc = "redecoded"
   /\ pubkey.type = TypeOf("secp256k1")
   /\ Len(data) = 33
   /\ prefix \in Accepted)
  => /\ out.kind = "ok"
     /\ result.kind = "ok"
     /\ [type |-> result.type, value |-> result.value] = pubkey
     /\ fromBase64(result.value) = data

C1_Witness ==
  /\ pc = "redecoded"
  /\ pubkey.type = TypeOf("secp256k1")
  /\ Len(data) = 33
  /\ prefix = "cosmosvalconspub"
  /\ result.kind = "ok"
  /\ fromBase64(result.value) = data

\* C2: for each of the three algorithms, the bytes "marker of the algorithm
\* followed by a payload of the algorithm's required length" decode under an
\* accepted prefix to that algorithm and that payload.
C2_DecodeAllAlgorithms ==
  \A a \in Algorithms :
    (/\ pc = "decoded"
     /\ prefix \in Accepted
     /\ IsTagged(data, a))
    => /\ result.kind = "ok"
       /\ result.type = TypeOf(a)
       /\ fromBase64(result.value) = PayloadOf(data, a)

\* C3: when decode succeeds with a secp256k1 key, encoding the decoded key
\* with the same prefix gives back the string that was decoded, and its
\* payload is byte for byte the data that was decoded.
C3_EncodeOfDecode ==
  (/\ pc = "reencoded"
   /\ result.type = TypeOf("secp256k1"))
  => /\ out.kind = "ok"
     /\ out.bech = bech
     /\ Bech32_decode(out.bech).data = data

C3_Witness ==
  /\ pc = "reencoded"
  /\ result.kind = "ok"
  /\ result.type = TypeOf("secp256k1")
  /\ out.kind = "ok"
  /\ Len(data) = 38

\* C4: when the marker part of the data is a known algorithm's marker and the
\* rest has not that algorithm's required length, decode fails with
\* InvalidPayloadLength naming the algorithm's expected length and returns no
\* key.
C4_LengthEnforced ==
  \A a \in Algorithms :
    (/\ pc = "decoded"
     /\ prefix \in Accepted
     /\ MarkerPart(data) = Marker(a)
     /\ Len(RestPart(data)) # Required(a))
    => /\ result.kind = "InvalidPayloadLength"
       /\ result.expected = Required(a)
       /\ result.type = ""
       /\ result.value = <<>>

C4_Witness ==
  /\ pc = "decoded"
  /\ prefix \in Accepted
  /\ MarkerPart(data) = <<235, 90, 233, 135, 33>>
  /\ Len(RestPart(data)) = 34
  /\ result.kind = "InvalidPayloadLength"
  /\ result.expected = 33

\* C5: data of any length whose marker part is none of the known markers
\* fails under an accepted prefix with UnsupportedKeyEncoding, which reports
\* the marker part in hex, whatever the length of the rest.
C5_UnknownMarker ==
  (/\ pc = "decoded"
   /\ prefix \in Accepted
   /\ \A a \in Algorithms : MarkerPart(data) # Marker(a))
  => /\ result.kind = "UnsupportedKeyEncoding"
     /\ result.hex = toHex(MarkerPart(data))
     /\ result.type = ""

C5_Witness ==
  /\ pc = "decoded"
  /\ prefix \in Accepted
  /\ Len(data) < 5
  /\ Len(data) > 0
  /\ result.kind = "UnsupportedKeyEncoding"
  /\ result.hex = toHex(data)

\* C6: a string whose prefix is not an accepted one fails with InvalidPrefix
\* whatever its payload is, also when the payload would decode under an
\* accepted prefix.
C6_PrefixRejectedFirst ==
  (/\ pc = "decoded"
   /\ prefix \notin Accepted)
  => /\ result.kind = "InvalidPrefix"
     /\ result.type = ""

C6_Witness ==
  /\ pc = "decoded"
  /\ prefix = "cosmos"
  /\ IsTagged(data, "secp256k1")
  /\ result.kind = "InvalidPrefix"

\* C7: encode fails with UnsupportedAlgorithmForEncoding and produces no
\* string for every key that is not secp256k1, for every prefix and key
\* length; the string built by hand from the ed25519 marker and 32 key bytes
\* under an accepted prefix decodes to that ed25519 key.
C7_EncodeRestriction ==
  /\ (/\ pc \in {"encoded", "handmade"}
      /\ pubkey.type # TypeOf("secp256k1"))
     => /\ out.kind = "UnsupportedAlgorithmForEncoding"
        /\ out.bech = NoBech
  /\ (/\ pc = "handmade"
      /\ pubkey.type = TypeOf("ed25519")
      /\ Len(data) = 32
      /\ prefix \in Accepted)
     => /\ result.kind = "ok"
        /\ [type |-> result.type, value |-> result.value] = pubkey

C7_Witness ==
  /\ pc = "handmade"
  /\ pubkey.type = TypeOf("ed25519")
  /\ Len(data) = 32
  /\ prefix = "cosmospub"
  /\ out.kind = "UnsupportedAlgorithmForEncoding"
  /\ result.kind = "ok"

\* C8: encode does not check the key length: a secp256k1 key of any length
\* is encoded as the secp256k1 marker followed by the key bytes unchanged,
\* and when the length is not 33 decode rejects that output with
\* InvalidPayloadLength.
C8_EncodeTrustsLength ==
  /\ (/\ pc \in {"encoded", "redecoded"}
      /\ pubkey.type = TypeOf("secp256k1"))
     => /\ out.kind = "ok"
        /\ out.bech.prefix = prefix
        /\ Bech32_decode(out.bech).data = <<235, 90, 233, 135, 33>> \o data
  /\ (/\ pc = "redecoded"
      /\ Len(data) # 33
      /\ prefix \in Accepted)
     => /\ result.kind = "InvalidPayloadLength"
        /\ result.expected = 33

C8_Witness ==
  /\ pc = "redecoded"
  /\ pubkey.type = TypeOf("secp256k1")
  /\ Len(data) = 32
  /\ prefix \in Accepted
  /\ out.kind = "ok"
  /\ result.kind = "InvalidPayloadLength"

\* C9: the three markers have one and the same length, which is the width
\* decode splits the data at, so the data "sr25519 marker followed by 32
\* bytes" is matched to sr25519 by the split.
C9_MarkersShareLength ==
  /\ \A a \in Algorithms : Len(Marker(a)) = pubkeyAminoPrefixLength
  /\ (/\ pc = "decoded"
      /\ prefix \in Accepted
      /\ IsTagged(data, "sr25519"))
     => result.kind # "UnsupportedKeyEncoding"

\* the orders in which the three markers can be compared, and the outcome
\* of comparing them in a given order
Orders == {o \in [1..3 -> Algorithms] : \A i, j \in 1..3 : o[i] = o[j] => i = j}

Matching(o, d) == {i \in 1..3 : MarkerPart(d) = Marker(o[i])}

TriedIn(o, d) ==
  IF Matching(o, d) = {}
    THEN [kind |-> "UnsupportedKeyEncoding", type |-> "", value |-> <<>>]
    ELSE LET first == CHOOSE i \in Matching(o, d) : \A j \in Matching(o, d) : i <= j
             a == o[first]
         IN IF Len(RestPart(d)) # Required(a)
              THEN [kind |-> "InvalidPayloadLength", type |-> "", value |-> <<>>]
              ELSE [kind |-> "ok", type |-> TypeOf(a), value |-> toBase64(RestPart(d))]

\* C10: at most one known marker matches the marker part of any data, so
\* comparing the markers in any order gives the result, or the kind of
\* error, that decode gives.
C10_OrderIndependent ==
  /\ \A a, b \in Algorithms : Marker(a) = Marker(b) => a = b
  /\ (pc = "decoded" /\ prefix \in Accepted)
     => /\ Cardinality({a \in Algorithms : MarkerPart(data) = Marker(a)}) <= 1
        /\ \A o \in Orders :
             TriedIn(o, data) =
               [kind |-> result.kind, type |-> result.type, value |-> result.value]

C10_Witness ==
  /\ pc = "decoded"
  /\ prefix \in Accepted
  /\ result.kind = "ok"
  /\ result.type = TypeOf("ed25519")
  /\ TriedIn([i \in 1..3 |-> <<"sr25519", "ed25519", "secp256k1">>[i]], data).kind = "ok"

====
